---- MODULE Spec2Model ----
(***************************************************************************)
(* Certificate issuance and verification of the course platform.           *)
(*                                                                         *)
(* The database tables are sets of rows; a request handler is a process    *)
(* that runs the handler's database statements one at a time, so that two  *)
(* requests interleave exactly where two server threads can.  A handler's  *)
(* Python locals (course, existing_certificate, enrollment, settings,      *)
(* certificate) are the fields of loc[p].                                  *)
(***************************************************************************)
EXTENDS Integers, Sequences, FiniteSets, TLC

\* ----------------------------------------------------------------- bounds
NumUsers == 2
NumCourses == 1
NumProcs == 2
NumVideos == 2
MaxAttempts == 2
NumUuids == 2
MaxTemplates == 3
MaxColorLen == 7
InsertsPerDay == 2

Users == 1..NumUsers
Courses == 1..NumCourses
Procs == 1..NumProcs

\* Python's None; identifiers are tuples so that None compares with them.
None == <<>>

\* str(uuid.uuid4()): one of a few opaque tokens; a draw may repeat.
Uuid(n) == <<"uuid", n>>
Uuids == {Uuid(n) : n \in 1..NumUuids}

\* The text of an integer, as it arrives in a URL (/verify/1).
IntStr(k) == <<"int", k>>

\* Every identifier a verification request can carry.
Identifiers == Uuids \cup {IntStr(k) : k \in 1..(NumUsers * NumCourses)}

\* f"uploads/certificates/certificate_{certificate_id}.pdf"
FilePath(cid) == <<"uploads/certificates/certificate_", cid, ".pdf">>

\* User.name and Course.title of the rows with these primary keys.
UserName(u) == <<"name", u>>
CourseTitle(c) == <<"title", c>>

VARIABLES
    users,          \* users[u]: the User row with id u exists
    courses,        \* courses[c]: [exists, has_certificate, certificate_template_id]
    enroll,         \* enroll[<<u, c>>]: "none" | "enrolled" | "completed" (UserCourse)
    settings,       \* the CertificateSettings rows, in primary-key order
    certs,          \* the Certificate rows
    nextCertId,     \* the next Certificate primary key
    files,          \* the paths (under the static folder) that hold a file
    templates,      \* the CertificateTemplate rows
    nextTemplateId, \* the next CertificateTemplate primary key
    quiz,           \* quiz[c]: course c has a Quiz row (its id is c's)
    progress,       \* progress[<<u, c>>]: the videos of c with a completed VideoProgress of u
    attempts,       \* the QuizAttempt rows
    pc,             \* pc[p]: where request p stands in its handler
    loc             \* loc[p]: the handler's locals

vars == <<users, courses, enroll, settings, certs, nextCertId, files,
          templates, nextTemplateId, quiz, progress, attempts, pc, loc>>

dbIssue == <<users, courses, enroll, settings, certs, nextCertId, files>>
dbTemplates == <<templates, nextTemplateId>>
dbLearning == <<quiz, progress, attempts>>

Pairs == Users \X Courses
Videos == 1..NumVideos

\* ------------------------------------------------------------- the tables

\* CertificateSettings(): the column defaults.
DefaultSettings == [auto_issue |-> TRUE, send_email |-> TRUE]

\* Certificate.query.filter_by(user_id=u, course_id=c).first()
CertsOf(u, c) == {x \in certs : x.user_id = u /\ x.course_id = c}
FirstById(S) == CHOOSE x \in S : \A y \in S : x.id <= y.id
CertificateFor(u, c) == IF CertsOf(u, c) = {} THEN None ELSE FirstById(CertsOf(u, c))

\* get_utc_now(): the instant of the call.  The inserts of certificates are the
\* only events that are timed, so the count of inserts names the instant.
get_utc_now == nextCertId

\* The value a db.Date column keeps of an instant: its day.
Date(t) == <<"date", t \div InsertsPerDay>>

\* issue_date.strftime('%Y-%m-%d')
Strftime(d) == <<"%Y-%m-%d", d[2]>>

\* The value of a local that holds the handler's result before it returns.
Pending == <<"pending">>

\* The locals of a request that has not started.
NoLoc == [op |-> "none", u |-> 0, c |-> 0, course |-> "unread",
          existing |-> "unread", enrollment |-> "unread", auto_issue |-> "unread",
          send_email |-> "unread", expired |-> FALSE, cid |-> None,
          inserted |-> FALSE, render |-> "none", style_from |-> None,
          email |-> "none", ret |-> Pending,
          caller |-> "none", attempt |-> None, attempt_id |-> None]

\* db.session of a request: the QuizAttempt that submit_quiz added and no commit
\* has written yet (rec.attempt), as the rows a commit INSERTs ...
SessionNew(rec) ==
    IF rec.attempt = None THEN {}
    ELSE {[id |-> Cardinality(attempts) + 1, user_id |-> rec.attempt.user_id,
           quiz_id |-> rec.attempt.quiz_id, passed |-> rec.attempt.passed]}
\* ... the locals after db.session.commit(): the attempt has its primary key ...
Persisted(rec) ==
    IF rec.attempt = None THEN rec
    ELSE [rec EXCEPT !.attempt = None, !.attempt_id = Cardinality(attempts) + 1]
\* ... and after db.session.rollback(), or at the end of the request
\* (the session is removed): what was not committed is gone.
Discarded(rec) == [rec EXCEPT !.attempt = None]

\* The state with the enrolments E, the template rows T and the next template
\* key n; nothing issued, no settings row, no request running.
InitWith(E, T, n) ==
    /\ users = [u \in Users |-> TRUE]
    /\ courses = [c \in Courses |->
                    [exists |-> TRUE, has_certificate |-> FALSE,
                     certificate_template_id |-> 0]]
    /\ enroll = E
    /\ settings = <<>>
    /\ certs = {}
    /\ nextCertId = 1
    /\ files = {}
    /\ templates = T
    /\ nextTemplateId = n
    /\ quiz = [c \in Courses |-> FALSE]
    /\ progress = [pr \in Pairs |-> {}]
    /\ attempts = {}
    /\ pc = [p \in Procs |-> "idle"]
    /\ loc = [p \in Procs |-> NoLoc]

\* A fresh installation with its users and courses, and any enrolments (the
\* enrolment and its completion are supplied from outside the subsystem).
Init == \E E \in [Pairs -> {"none", "enrolled", "completed"}] : InitWith(E, {}, 1)

\* The same after the back-office has listed the certificate templates once,
\* which created the default template.
IssueInit ==
    \E E \in [Pairs -> {"none", "enrolled", "completed"}] :
        InitWith(E, {[id |-> 1, is_default |-> TRUE]}, 2)

\* A fresh installation nobody has enrolled in.
TemplateInit == InitWith([pr \in Pairs |-> "none"], {}, 1)

\* ----------------------------------------------------- CertificateSettings

\* CertificateSettings.get_settings(): the table after the call (a row with the
\* column defaults is added when the table is empty) ...
GetSettingsTable == IF settings = <<>> THEN <<DefaultSettings>> ELSE settings
\* ... and the row it returns, cls.query.first().
GetSettingsRow == GetSettingsTable[1]

\* ------------------------------------------------------------ issuance

\* A faulty variant: the table without _user_course_cert_uc, only the
\* identifier is unique.
IntegrityError_without_pair_constraint(u, c, cid) ==
    \E x \in certs : x.certificate_id = cid

\* The UNIQUE constraints of the certificates table: _user_course_cert_uc on
\* (user_id, course_id) and unique=True on certificate_id.  TRUE when the
\* INSERT of such a row raises IntegrityError.
IntegrityError(u, c, cid) ==
    \/ \E x \in certs : x.user_id = u /\ x.course_id = c
    \/ \E x \in certs : x.certificate_id = cid

\* A request of a logged-in user calls issue_certificate_on_course_completion.
issue_call(p, u, c) ==
    /\ pc[p] = "idle"
    /\ users[u]
    /\ pc' = [pc EXCEPT ![p] = "issue_course"]
    /\ loc' = [loc EXCEPT ![p] = [NoLoc EXCEPT !.op = "issue", !.u = u, !.c = c]]
    /\ UNCHANGED <<dbLearning, dbIssue, dbTemplates>>

\* course = Course.query.get(course_id); not course or not has_certificate
issue_course(p) ==
    /\ pc[p] = "issue_course"
    /\ LET co == courses[loc[p].c]
           seen == IF ~co.exists THEN "missing"
                   ELSE IF ~co.has_certificate THEN "disabled" ELSE "ok"
       IN IF seen = "ok"
          THEN /\ pc' = [pc EXCEPT ![p] = "issue_existing"]
               /\ loc' = [loc EXCEPT ![p].course = seen]
          ELSE /\ pc' = [pc EXCEPT ![p] = "done"]
               /\ loc' = [loc EXCEPT ![p].course = seen, ![p].ret = None]
    /\ UNCHANGED <<dbLearning, dbIssue, dbTemplates>>

\* A faulty variant: the row found is handed on to the email step.
issue_existing_notifying(p) ==
    /\ pc[p] = "issue_existing"
    /\ LET ex == CertificateFor(loc[p].u, loc[p].c)
       IN IF ex # None
          THEN /\ pc' = [pc EXCEPT ![p] = "issue_email"]
               /\ loc' = [loc EXCEPT ![p].existing = "found",
                                     ![p].send_email = "yes",
                                     ![p].ret = ex.certificate_id]
          ELSE /\ pc' = [pc EXCEPT ![p] = "issue_enrollment"]
               /\ loc' = [loc EXCEPT ![p].existing = "absent"]
    /\ UNCHANGED <<dbLearning, dbIssue, dbTemplates>>

\* existing_certificate = Certificate.query.filter_by(...).first()
issue_existing(p) ==
    /\ pc[p] = "issue_existing"
    /\ LET ex == CertificateFor(loc[p].u, loc[p].c)
       IN IF ex # None
          THEN /\ pc' = [pc EXCEPT ![p] = "done"]
               /\ loc' = [loc EXCEPT ![p].existing = "found",
                                     ![p].ret = ex.certificate_id]
          ELSE /\ pc' = [pc EXCEPT ![p] = "issue_enrollment"]
               /\ loc' = [loc EXCEPT ![p].existing = "absent"]
    /\ UNCHANGED <<dbLearning, dbIssue, dbTemplates>>

\* enrollment = UserCourse.query.filter_by(...).first(); absent or not completed
issue_enrollment(p) ==
    /\ pc[p] = "issue_enrollment"
    /\ LET en == enroll[<<loc[p].u, loc[p].c>>]
       IN IF en = "completed"
          THEN /\ pc' = [pc EXCEPT ![p] = "issue_settings"]
               /\ loc' = [loc EXCEPT ![p].enrollment = en]
          ELSE /\ pc' = [pc EXCEPT ![p] = "done"]
               /\ loc' = [loc EXCEPT ![p].enrollment = en, ![p].ret = None]
    /\ UNCHANGED <<dbLearning, users, courses, enroll, settings, certs, nextCertId, files,
                   dbTemplates>>

\* A faulty variant: the settings are loaded but auto_issue is not tested.
issue_settings_without_gate(p) ==
    /\ pc[p] = "issue_settings"
    /\ settings' = GetSettingsTable
    /\ pc' = [pc EXCEPT ![p] = "generate_existing"]
    /\ attempts' = IF settings = <<>> THEN attempts \cup SessionNew(loc[p]) ELSE attempts
    /\ loc' = [loc EXCEPT
                ![p] = IF settings = <<>> THEN Persisted(@) ELSE @,
                ![p].auto_issue = IF GetSettingsRow.auto_issue THEN "yes" ELSE "no",
                ![p].send_email = IF GetSettingsRow.send_email THEN "yes" ELSE "no",
                ![p].expired = (settings = <<>>)]
    /\ UNCHANGED <<quiz, progress, users, courses, enroll, certs, nextCertId, files,
                   dbTemplates>>

\* settings = CertificateSettings.get_settings(); not settings.auto_issue.
\* get_settings commits when it creates the row, which expires the session's
\* objects (the cached Course row is re-read on its next use) and writes what
\* the caller's session holds.
issue_settings(p) ==
    /\ pc[p] = "issue_settings"
    /\ settings' = GetSettingsTable
    /\ attempts' = IF settings = <<>> THEN attempts \cup SessionNew(loc[p]) ELSE attempts
    /\ LET row == GetSettingsRow
           read == [loc EXCEPT ![p] = IF settings = <<>> THEN Persisted(@) ELSE @,
                               ![p].auto_issue = IF row.auto_issue THEN "yes" ELSE "no",
                               ![p].send_email = IF row.send_email THEN "yes" ELSE "no",
                               ![p].expired = (settings = <<>>)]
       IN IF row.auto_issue
          THEN /\ pc' = [pc EXCEPT ![p] = "generate_existing"]
               /\ loc' = read
          ELSE /\ pc' = [pc EXCEPT ![p] = "done"]
               /\ loc' = [read EXCEPT ![p].ret = None]
    /\ UNCHANGED <<quiz, progress, users, courses, enroll, certs, nextCertId, files,
                   dbTemplates>>

\* The row whose appearance columns create_certificate_pdf draws with: the
\* CertificateSettings row of get_settings().  Neither course.certificate_template
\* nor any CertificateTemplate is read.
StyleRow == <<"certificate_settings", 1>>

\* A faulty variant: the document is saved beside the path it was given.
create_certificate_pdf_elsewhere(path, ok) ==
    /\ settings' = GetSettingsTable
    /\ files' = IF ok THEN files \cup {<<"copy of", path>>} ELSE files

\* create_certificate_pdf: its effect on storage and on the settings table.
\* It reads the settings (get_settings) and writes the document to output_path;
\* ok = FALSE is the run in which the canvas cannot be saved, neither the full
\* layout nor the fallback, and the function returns False leaving no file.
create_certificate_pdf(path, ok) ==
    /\ settings' = GetSettingsTable
    /\ files' = IF ok THEN files \cup {path} ELSE files

\* A faulty variant: a failed re-render ends the call with None.
generate_existing_failing(p) ==
    /\ pc[p] = "generate_existing"
    /\ LET ex == CertificateFor(loc[p].u, loc[p].c)
       IN IF ex # None
          THEN /\ IF ex.file_path \notin files
                  THEN \E ok \in BOOLEAN :
                         /\ create_certificate_pdf(ex.file_path, ok)
                         /\ loc' = [loc EXCEPT ![p].existing = "found",
                                      ![p].ret = IF ok THEN ex.certificate_id ELSE None,
                                      ![p].render = IF ok THEN "regenerated" ELSE "failed",
                                      ![p].style_from = IF ok THEN StyleRow ELSE None]
                  ELSE /\ UNCHANGED <<settings, files>>
                       /\ loc' = [loc EXCEPT ![p].existing = "found",
                                             ![p].ret = ex.certificate_id]
               /\ pc' = [pc EXCEPT ![p] = "issue_email"]
          ELSE /\ pc' = [pc EXCEPT ![p] = "generate_load"]
               /\ loc' = loc
               /\ UNCHANGED <<settings, files>>
    /\ UNCHANGED <<dbLearning, users, courses, enroll, certs, nextCertId, dbTemplates>>

\* generate_certificate, the existing-certificate branch: return the row,
\* re-rendering its file first when the file is missing (a failure is logged).
generate_existing(p) ==
    /\ pc[p] = "generate_existing"
    /\ LET ex == CertificateFor(loc[p].u, loc[p].c)
       IN IF ex # None
          THEN /\ IF ex.file_path \notin files
                  THEN \E ok \in BOOLEAN :
                         /\ create_certificate_pdf(ex.file_path, ok)
                         /\ loc' = [loc EXCEPT ![p].existing = "found",
                                      ![p].ret = ex.certificate_id,
                                      ![p].render = IF ok THEN "regenerated" ELSE "failed",
                                      ![p].style_from = IF ok THEN StyleRow ELSE None]
                  ELSE /\ UNCHANGED <<settings, files>>
                       /\ loc' = [loc EXCEPT ![p].existing = "found",
                                             ![p].ret = ex.certificate_id]
               /\ pc' = [pc EXCEPT ![p] = "issue_email"]
          ELSE /\ pc' = [pc EXCEPT ![p] = "generate_load"]
               /\ loc' = loc
               /\ UNCHANGED <<settings, files>>
    /\ UNCHANGED <<dbLearning, users, courses, enroll, certs, nextCertId, dbTemplates>>

\* user = User.query.get(user_id); course = Course.query.get(course_id);
\* not user or not course; not course.has_certificate.  Query.get answers from
\* the session's identity map unless the object expired.
generate_load(p) ==
    /\ pc[p] = "generate_load"
    /\ LET co == courses[loc[p].c]
           okUser == users[loc[p].u]
           okCourse == IF loc[p].expired
                       THEN co.exists /\ co.has_certificate
                       ELSE loc[p].course = "ok"
       IN IF okUser /\ okCourse
          THEN /\ pc' = [pc EXCEPT ![p] = "generate_insert"]
               /\ loc' = loc
          ELSE /\ pc' = [pc EXCEPT ![p] = "done"]
               /\ loc' = [loc EXCEPT ![p].ret = None]
    /\ UNCHANGED <<dbLearning, dbIssue, dbTemplates>>

\* certificate_id = str(uuid.uuid4()); Certificate(...); db.session.add;
\* db.session.commit(), which writes the caller's session with it.  An
\* IntegrityError is caught by the except clause: rollback, return None.
generate_insert(p) ==
    /\ pc[p] = "generate_insert"
    /\ \E cid \in Uuids :
         IF IntegrityError(loc[p].u, loc[p].c, cid)
         THEN /\ pc' = [pc EXCEPT ![p] = "done"]
              /\ loc' = [loc EXCEPT ![p] = Discarded(@), ![p].cid = cid, ![p].ret = None]
              /\ UNCHANGED <<certs, nextCertId, attempts>>
         ELSE /\ certs' = certs \cup
                    {[id |-> nextCertId, user_id |-> loc[p].u,
                      course_id |-> loc[p].c, certificate_id |-> cid,
                      file_path |-> FilePath(cid),
                      issue_date |-> Date(get_utc_now)]}
              /\ nextCertId' = nextCertId + 1
              /\ pc' = [pc EXCEPT ![p] = "generate_render"]
              /\ attempts' = attempts \cup SessionNew(loc[p])
              /\ loc' = [loc EXCEPT ![p] = Persisted(@), ![p].cid = cid,
                                    ![p].inserted = TRUE]
    /\ UNCHANGED <<quiz, progress, users, courses, enroll, settings, files, dbTemplates>>

\* A faulty variant: the row is committed only after the render, so that the
\* rollback of the except clause removes it.
AfterRollback_undoing_insert(p) ==
    {x \in certs : ~(x.user_id = loc[p].u /\ x.course_id = loc[p].c)}

\* What db.session.rollback() in the except clause leaves of the table: the
\* INSERT is committed already, the rollback has nothing to undo.
AfterRollback(p) == certs

\* create_certificate_pdf(certificate, user, course, full_file_path); the file
\* is missing afterwards: raise, rollback, return None.  The commit of the
\* INSERT expired the session's objects, so get_settings inside the renderer
\* loads the caller's settings object anew.
generate_render(p) ==
    /\ pc[p] = "generate_render"
    /\ \E ok \in BOOLEAN :
         /\ create_certificate_pdf(FilePath(loc[p].cid), ok)
         /\ LET read == [loc EXCEPT ![p].send_email =
                            IF GetSettingsRow.send_email THEN "yes" ELSE "no"]
            IN IF ok
               THEN /\ pc' = [pc EXCEPT ![p] = "issue_email"]
                    /\ loc' = [read EXCEPT ![p].render = "written",
                                           ![p].style_from = StyleRow,
                                           ![p].ret = loc[p].cid]
                    /\ certs' = certs
               ELSE /\ pc' = [pc EXCEPT ![p] = "done"]
                    /\ loc' = [read EXCEPT ![p].render = "failed", ![p].ret = None]
                    /\ certs' = AfterRollback(p)
    /\ UNCHANGED <<dbLearning, users, courses, enroll, nextCertId, dbTemplates>>

\* settings.send_email as line 392 reads it: the attribute of the settings
\* object as the session loaded it last (by get_settings at line 381, or by the
\* renderer's get_settings after the commit of a new certificate).
SendEmailFlag(p) == loc[p].send_email = "yes"

\* EmailService.send_certificate_email: True when the message went out; False
\* when mail is switched off or anything in it raised (it catches everything).
send_certificate_email(delivered) == IF delivered THEN "sent" ELSE "failed"

\* A faulty variant: the email is handed over whatever settings.send_email says.
issue_email_regardless(p) ==
    /\ pc[p] = "issue_email"
    /\ pc' = [pc EXCEPT ![p] = "done"]
    /\ \E delivered \in BOOLEAN :
         loc' = [loc EXCEPT ![p].email = send_certificate_email(delivered)]
    /\ UNCHANGED <<dbLearning, users, courses, enroll, settings, certs, nextCertId, files,
                   dbTemplates>>

\* if certificate and settings.send_email: EmailService.send_certificate_email;
\* its result is dropped, an exception is caught and logged; return certificate.
issue_email(p) ==
    /\ pc[p] = "issue_email"
    /\ pc' = [pc EXCEPT ![p] = "done"]
    /\ IF SendEmailFlag(p)
       THEN \E delivered \in BOOLEAN :
              loc' = [loc EXCEPT ![p].email = send_certificate_email(delivered)]
       ELSE loc' = [loc EXCEPT ![p].email = "none"]
    /\ UNCHANGED <<dbLearning, users, courses, enroll, settings, certs, nextCertId, files,
                   dbTemplates>>

\* The handler returns; its locals go away.
finish(p) ==
    /\ pc[p] = "done"
    /\ loc[p].caller = "none"
    /\ pc' = [pc EXCEPT ![p] = "idle"]
    /\ loc' = [loc EXCEPT ![p] = NoLoc]
    /\ UNCHANGED <<dbLearning, dbIssue, dbTemplates>>

\* ------------------------------------------------------------ download

\* certificates.download: first_or_404 on (current_user, course_id); the file
\* is sent when it exists, otherwise the request is redirected to the HTML view.
download(p, u, c) ==
    /\ pc[p] = "idle"
    /\ users[u]
    /\ LET cert == CertificateFor(u, c)
           answer == IF cert = None THEN <<"404">>
                     ELSE IF cert.file_path \in files
                          THEN <<"send_file", cert.file_path>>
                          ELSE <<"redirect", "certificates.view">>
       IN loc' = [loc EXCEPT ![p] = [NoLoc EXCEPT !.op = "download", !.u = u,
                                                  !.c = c, !.ret = answer]]
    /\ pc' = [pc EXCEPT ![p] = "done"]
    /\ UNCHANGED <<dbLearning, dbIssue, dbTemplates>>

\* ------------------------------------------- the two completion triggers

\* QuizAttempt.query.filter_by(user_id, quiz_id, passed=True).first() finds a row.
QuizPassed(u, c) ==
    \E a \in attempts : a.user_id = u /\ a.quiz_id = c /\ a.passed

\* The locals of a handler of user u on course c that has just started.
HandlerLoc(h, u, c) == [NoLoc EXCEPT !.op = h, !.caller = h, !.u = u, !.c = c]

\* A faulty variant: the certificate step is taken whether or not the course's
\* quiz was passed.
mark_video_completed_ignoring_quiz(p, u, c, v) ==
    /\ pc[p] = "idle"
    /\ users[u] /\ courses[c].exists
    /\ progress' = [progress EXCEPT ![<<u, c>>] = @ \cup {v}]
    /\ LET all_completed == progress'[<<u, c>>] = Videos
           start == HandlerLoc("mark_video_completed", u, c)
       IN IF all_completed /\ enroll[<<u, c>>] = "enrolled"
          THEN /\ enroll' = [enroll EXCEPT ![<<u, c>>] = "completed"]
               /\ pc' = [pc EXCEPT ![p] = "issue_course"]
               /\ loc' = [loc EXCEPT ![p] = [start EXCEPT !.op = "issue"]]
          ELSE /\ enroll' = enroll
               /\ pc' = [pc EXCEPT ![p] = "responded"]
               /\ loc' = [loc EXCEPT ![p] = start]
    /\ UNCHANGED <<users, courses, settings, certs, nextCertId, files, dbTemplates,
                   quiz, attempts>>

\* courses.mark_video_completed (POST) up to its call of
\* issue_certificate_on_course_completion: the VideoProgress row is written and
\* committed; when every video of the course is completed and the enrollment
\* is not completed yet, the enrollment is completed and committed, and the
\* certificate step is taken when the course has no quiz or the user has a
\* passing attempt.  An enrollment that is completed already ends the request.
mark_video_completed(p, u, c, v) ==
    /\ pc[p] = "idle"
    /\ users[u] /\ courses[c].exists
    /\ progress' = [progress EXCEPT ![<<u, c>>] = @ \cup {v}]
    /\ LET all_completed == progress'[<<u, c>>] = Videos
           start == HandlerLoc("mark_video_completed", u, c)
       IN IF all_completed /\ enroll[<<u, c>>] = "enrolled"
          THEN /\ enroll' = [enroll EXCEPT ![<<u, c>>] = "completed"]
               /\ IF ~quiz[c] \/ QuizPassed(u, c)
                  THEN /\ pc' = [pc EXCEPT ![p] = "issue_course"]
                       /\ loc' = [loc EXCEPT ![p] = [start EXCEPT !.op = "issue"]]
                  ELSE /\ pc' = [pc EXCEPT ![p] = "responded"]
                       /\ loc' = [loc EXCEPT ![p] = [start EXCEPT !.ret = None]]
          ELSE /\ enroll' = enroll
               /\ pc' = [pc EXCEPT ![p] = "responded"]
               /\ loc' = [loc EXCEPT ![p] = start]
    /\ UNCHANGED <<users, courses, settings, certs, nextCertId, files, dbTemplates,
                   quiz, attempts>>

\* ... and after the call: send_course_completion_email, the JSON answer.
mark_video_completed_return(p) ==
    /\ pc[p] = "done"
    /\ loc[p].caller = "mark_video_completed"
    /\ pc' = [pc EXCEPT ![p] = "responded"]
    /\ loc' = loc
    /\ UNCHANGED <<dbIssue, dbTemplates, dbLearning>>

\* A faulty variant: the attempt is committed as soon as it is added.
submit_quiz_committing_first(p, u, c, passed) ==
    /\ pc[p] = "idle"
    /\ users[u] /\ courses[c].exists /\ quiz[c]
    /\ Cardinality(attempts) < MaxAttempts
    /\ LET start == [HandlerLoc("submit_quiz", u, c) EXCEPT
                        !.attempt = [user_id |-> u, quiz_id |-> c, passed |-> passed]]
           becomes == /\ passed /\ enroll[<<u, c>>] = "enrolled"
                      /\ progress[<<u, c>>] = Videos
           en == IF becomes THEN "completed" ELSE enroll[<<u, c>>]
           calls == /\ passed /\ en = "completed" /\ courses[c].has_certificate
                    /\ CertificateFor(u, c) = None
       IN /\ enroll' = [enroll EXCEPT ![<<u, c>>] = en]
          /\ attempts' = attempts \cup SessionNew(start)
          /\ IF calls
             THEN /\ pc' = [pc EXCEPT ![p] = "issue_course"]
                  /\ loc' = [loc EXCEPT ![p] = [Persisted(start) EXCEPT !.op = "issue"]]
             ELSE /\ pc' = [pc EXCEPT ![p] = "responded"]
                  /\ loc' = [loc EXCEPT ![p] = Persisted(start)]
    /\ UNCHANGED <<users, courses, settings, certs, nextCertId, files, dbTemplates,
                   quiz, progress>>

\* quizzes.submit_quiz (POST) up to its call of
\* issue_certificate_on_course_completion: the QuizAttempt is added to the
\* session, not committed.  A passing attempt completes the enrollment when every
\* video is completed (commit); with the enrollment completed and certificates
\* enabled for the course, the certificate step is taken when the pair has no
\* Certificate.  Every other path reaches the db.session.commit() that follows
\* the block.
submit_quiz(p, u, c, passed) ==
    /\ pc[p] = "idle"
    /\ users[u] /\ courses[c].exists /\ quiz[c]
    /\ Cardinality(attempts) < MaxAttempts
    /\ LET start == [HandlerLoc("submit_quiz", u, c) EXCEPT
                        !.attempt = [user_id |-> u, quiz_id |-> c, passed |-> passed]]
           becomes == /\ passed /\ enroll[<<u, c>>] = "enrolled"
                      /\ progress[<<u, c>>] = Videos
           en == IF becomes THEN "completed" ELSE enroll[<<u, c>>]
           calls == /\ passed /\ en = "completed" /\ courses[c].has_certificate
                    /\ CertificateFor(u, c) = None
       IN /\ enroll' = [enroll EXCEPT ![<<u, c>>] = en]
          /\ IF calls
             THEN /\ attempts' = IF becomes THEN attempts \cup SessionNew(start)
                                 ELSE attempts
                  /\ pc' = [pc EXCEPT ![p] = "issue_course"]
                  /\ loc' = [loc EXCEPT ![p] =
                               [(IF becomes THEN Persisted(start) ELSE start)
                                  EXCEPT !.op = "issue"]]
             ELSE /\ attempts' = attempts \cup SessionNew(start)
                  /\ pc' = [pc EXCEPT ![p] = "responded"]
                  /\ loc' = [loc EXCEPT ![p] = Persisted(start)]
    /\ UNCHANGED <<users, courses, settings, certs, nextCertId, files, dbTemplates,
                   quiz, progress>>

\* ... and after the call: with a certificate or without one, the handler
\* returns a redirect at once; the commit that follows the block is not
\* reached, and the session is removed with the request.
submit_quiz_return(p) ==
    /\ pc[p] = "done"
    /\ loc[p].caller = "submit_quiz"
    /\ pc' = [pc EXCEPT ![p] = "responded"]
    /\ loc' = [loc EXCEPT ![p] = Discarded(@)]
    /\ UNCHANGED <<dbIssue, dbTemplates, dbLearning>>

\* The answer of a handler is sent; its locals go away.
respond(p) ==
    /\ pc[p] = "responded"
    /\ pc' = [pc EXCEPT ![p] = "idle"]
    /\ loc' = [loc EXCEPT ![p] = NoLoc]
    /\ UNCHANGED <<dbIssue, dbTemplates, dbLearning>>

\* ------------------------------------------------------- verification

\* A faulty variant: the lookup also accepts the primary key of a row.
verify_certificate_by_any_key(x) ==
    LET found == {r \in certs : r.certificate_id = x \/ IntStr(r.id) = x}
    IN IF found = {} THEN None ELSE FirstById(found)

\* verify_certificate: Certificate.query.filter_by(certificate_id=x).first()
verify_certificate(x) ==
    LET found == {r \in certs : r.certificate_id = x}
    IN IF found = {} THEN None ELSE FirstById(found)

\* User.query.get / Course.query.get: the row, or None.
UserGet(u) == IF u \in Users /\ users[u] THEN [id |-> u, name |-> UserName(u)] ELSE None
CourseGet(c) ==
    IF c \in Courses /\ courses[c].exists
    THEN [id |-> c, title |-> CourseTitle(c)] ELSE None

\* A faulty variant: an unknown identifier that is the text of a user's key is
\* answered differently when that user exists.
api_verify_naming_users(x) ==
    LET certificate == verify_certificate(x)
    IN IF certificate = None
       THEN [status |-> 404, valid |-> FALSE,
             message |-> IF \E u \in Users : users[u] /\ x = IntStr(u)
                         THEN "User has no such certificate"
                         ELSE "Certificate not found or invalid"]
       ELSE [status |-> 200, valid |-> TRUE,
             certificate_id |-> certificate.certificate_id,
             course_title |-> CourseTitle(certificate.course_id),
             user_name |-> UserName(certificate.user_id),
             issue_date |-> Strftime(certificate.issue_date)]

\* certificates.api_verify: the JSON body and the HTTP status.  Reading .title
\* or .name of None raises AttributeError, which the server answers with 500.
api_verify(x) ==
    LET certificate == verify_certificate(x)
    IN IF certificate = None
       THEN [status |-> 404, valid |-> FALSE,
             message |-> "Certificate not found or invalid"]
       ELSE IF CourseGet(certificate.course_id) = None
               \/ UserGet(certificate.user_id) = None
            THEN [status |-> 500]
            ELSE [status |-> 200, valid |-> TRUE,
                  certificate_id |-> certificate.certificate_id,
                  course_title |-> CourseGet(certificate.course_id).title,
                  user_name |-> UserGet(certificate.user_id).name,
                  issue_date |-> Strftime(certificate.issue_date)]

\* certificates.verify: what the handler passes to verify.html.  The template
\* reads certificate.user.name and certificate.course.title.
verify(x) ==
    LET certificate == verify_certificate(x)
    IN IF certificate = None
       THEN [status |-> 200, is_valid |-> FALSE, certificate_id |-> x]
       ELSE IF CourseGet(certificate.course_id) = None
               \/ UserGet(certificate.user_id) = None
            THEN [status |-> 500]
            ELSE [status |-> 200, is_valid |-> TRUE,
                  certificate_id |-> certificate.certificate_id,
                  course_title |-> CourseGet(certificate.course_id).title,
                  user_name |-> UserGet(certificate.user_id).name]

\* --------------------------------------------------------- back-office

\* certificate_settings_v2 (POST): get_settings, then the form's two flags.
certificate_settings_v2(auto, send) ==
    /\ settings' = [GetSettingsTable EXCEPT
                      ![1] = [auto_issue |-> auto, send_email |-> send]]
    /\ UNCHANGED <<dbLearning, users, courses, enroll, certs, nextCertId, files,
                   dbTemplates, pc, loc>>

\* certificate_settings_v2 (GET): get_settings, whose SELECT of the first row
\* comes first ...
settings_page(p) ==
    /\ pc[p] = "idle"
    /\ pc' = [pc EXCEPT ![p] = IF settings = <<>> THEN "settings_insert" ELSE "done"]
    /\ loc' = [loc EXCEPT ![p] = [NoLoc EXCEPT !.op = "certificate_settings_v2"]]
    /\ UNCHANGED <<dbLearning, dbIssue, dbTemplates>>

\* ... and, no row found, its INSERT of a row with the column defaults and its
\* commit after.  The table has no constraint that keeps it to one row.
get_settings_insert(p) ==
    /\ pc[p] = "settings_insert"
    /\ settings' = Append(settings, DefaultSettings)
    /\ pc' = [pc EXCEPT ![p] = "done"]
    /\ loc' = loc
    /\ UNCHANGED <<dbLearning, users, courses, enroll, certs, nextCertId, files, dbTemplates>>

\* db.session.delete(parent) of a row whose one-to-many children carry no
\* delete cascade: the unit of work sets the children's foreign key to NULL.
\* user_id and course_id of certificates and user_courses are NOT NULL, so the
\* flush raises IntegrityError and nothing is deleted.
CourseHasChildren(c) ==
    \/ \E x \in certs : x.course_id = c
    \/ \E u \in Users : enroll[<<u, c>>] # "none"
UserHasChildren(u) ==
    \/ \E x \in certs : x.user_id = u
    \/ \E c \in Courses : enroll[<<u, c>>] # "none"

\* A faulty variant: the delete reaches the database as it is, where ON DELETE
\* CASCADE removes the course's certificates and enrolments with it.
delete_course_cascading(c) ==
    /\ courses[c].exists
    /\ courses' = [courses EXCEPT ![c].exists = FALSE]
    /\ certs' = {x \in certs : x.course_id # c}
    /\ enroll' = [pr \in Pairs |-> IF pr[2] = c THEN "none" ELSE enroll[pr]]
    /\ UNCHANGED <<dbLearning, users, settings, nextCertId, files, dbTemplates, pc, loc>>

\* admin.delete_course
delete_course(c) ==
    /\ courses[c].exists
    /\ courses' = IF CourseHasChildren(c) THEN courses
                  ELSE [courses EXCEPT ![c].exists = FALSE]
    /\ UNCHANGED <<dbLearning, users, enroll, settings, certs, nextCertId, files,
                   dbTemplates, pc, loc>>

\* A faulty variant: the user row is deleted whatever refers to it.
delete_user_unchecked(u) ==
    /\ users[u]
    /\ users' = [users EXCEPT ![u] = FALSE]
    /\ UNCHANGED <<dbLearning, courses, enroll, settings, certs, nextCertId, files,
                   dbTemplates, pc, loc>>

\* admin.delete_user
delete_user(u) ==
    /\ users[u]
    /\ users' = IF UserHasChildren(u) THEN users ELSE [users EXCEPT ![u] = FALSE]
    /\ UNCHANGED <<dbLearning, courses, enroll, settings, certs, nextCertId, files,
                   dbTemplates, pc, loc>>

\* ------------------------------------------------- certificate templates

DefaultTemplates == {t \in templates : t.is_default}

\* query.filter_by(is_default=True).update({'is_default': False})
UnsetDefaults(T) == {[t EXCEPT !.is_default = FALSE] : t \in T}

\* CertificateTemplate.get_default_template(), run without interruption: the
\* table after the call ...
GetDefaultTable ==
    IF DefaultTemplates = {}
    THEN templates \cup {[id |-> nextTemplateId, is_default |-> TRUE]}
    ELSE templates
\* ... and the id of the row it returns.
GetDefaultId ==
    IF DefaultTemplates = {} THEN nextTemplateId ELSE FirstById(DefaultTemplates).id

\* admin.edit_course (POST): has_certificate from the form; the template is the
\* selected one, the default one when none is selected, None when certificates
\* are off.  tid = 0 is the empty selection.
edit_course(c, has_certificate, tid) ==
    /\ courses[c].exists
    /\ tid = 0 \/ \E t \in templates : t.id = tid
    /\ IF has_certificate /\ tid = 0
       THEN /\ DefaultTemplates = {} => nextTemplateId <= MaxTemplates
            /\ templates' = GetDefaultTable
            /\ nextTemplateId' = IF DefaultTemplates = {} THEN nextTemplateId + 1
                                 ELSE nextTemplateId
            /\ courses' = [courses EXCEPT ![c].has_certificate = TRUE,
                                          ![c].certificate_template_id = GetDefaultId]
       ELSE /\ UNCHANGED dbTemplates
            /\ courses' = [courses EXCEPT
                   ![c].has_certificate = has_certificate,
                   ![c].certificate_template_id = IF has_certificate THEN tid ELSE 0]
    /\ UNCHANGED <<dbLearning, users, enroll, settings, certs, nextCertId, files, pc, loc>>

\* A faulty variant: the new default is added without clearing the old one.
new_certificate_template_keeping_default(is_default) ==
    /\ nextTemplateId <= MaxTemplates
    /\ templates' = templates \cup {[id |-> nextTemplateId, is_default |-> is_default]}
    /\ nextTemplateId' = nextTemplateId + 1
    /\ UNCHANGED <<dbLearning, dbIssue, pc, loc>>

\* admin.new_certificate_template (POST)
new_certificate_template(is_default) ==
    /\ nextTemplateId <= MaxTemplates
    /\ templates' = (IF is_default THEN UnsetDefaults(templates) ELSE templates)
                      \cup {[id |-> nextTemplateId, is_default |-> is_default]}
    /\ nextTemplateId' = nextTemplateId + 1
    /\ UNCHANGED <<dbLearning, dbIssue, pc, loc>>

\* admin.edit_certificate_template (POST)
edit_certificate_template(tid, is_default) ==
    /\ \E t \in templates : t.id = tid
    /\ LET t == CHOOSE x \in templates : x.id = tid
           others == templates \ {t}
       IN templates' = (IF is_default /\ ~t.is_default
                        THEN UnsetDefaults(others) ELSE others)
                         \cup {[t EXCEPT !.is_default = is_default]}
    /\ UNCHANGED <<dbLearning, nextTemplateId, dbIssue, pc, loc>>

\* admin.delete_certificate_template (POST): refused for the default template
\* and for the only template; get_default_template adds a default row when
\* there is none; each course of template.courses has its
\* certificate_template_id column assigned the default's id, and the row is
\* deleted.  At the flush the one-to-many relationship template.courses (no
\* delete cascade) still holds these courses, and the deleted parent's children
\* get their foreign key cleared before their UPDATE is written: the column
\* assignment is overwritten with NULL.
delete_certificate_template(tid) ==
    /\ \E t \in templates : t.id = tid
    /\ LET t == CHOOSE x \in templates : x.id = tid
       IN /\ ~t.is_default
          /\ Cardinality(templates) > 1
          /\ DefaultTemplates = {} => nextTemplateId <= MaxTemplates
          /\ templates' = GetDefaultTable \ {t}
          /\ nextTemplateId' = IF DefaultTemplates = {} THEN nextTemplateId + 1
                               ELSE nextTemplateId
          /\ courses' = [c \in Courses |->
                           IF courses[c].certificate_template_id = tid
                           THEN [courses[c] EXCEPT !.certificate_template_id = 0]
                           ELSE courses[c]]
    /\ UNCHANGED <<dbLearning, users, enroll, settings, certs, nextCertId, files, pc, loc>>

\* admin.certificate_templates: query.all(); on an empty table
\* get_default_template, whose SELECT of the default row comes first ...
certificate_templates(p) ==
    /\ pc[p] = "idle"
    /\ pc' = [pc EXCEPT ![p] = IF templates = {} THEN "default_insert" ELSE "done"]
    /\ loc' = [loc EXCEPT ![p] = [NoLoc EXCEPT !.op = "certificate_templates"]]
    /\ UNCHANGED <<dbLearning, dbIssue, dbTemplates>>

\* ... and, no default row found, its INSERT and commit after.
get_default_template_insert(p) ==
    /\ pc[p] = "default_insert"
    /\ nextTemplateId <= MaxTemplates
    /\ templates' = templates \cup {[id |-> nextTemplateId, is_default |-> TRUE]}
    /\ nextTemplateId' = nextTemplateId + 1
    /\ pc' = [pc EXCEPT ![p] = "done"]
    /\ loc' = loc
    /\ UNCHANGED <<dbLearning, dbIssue>>

\* ------------------------------------------------------------ the renderers

\* A color column holds a string of up to 20 characters that no form validates.
\* A string is the sequence of its characters; the empty sequence stands for
\* both '' and None, which take the same path through either renderer.
ColorChars == {"#", "0", "F", "n"}
ColorStrings == UNION {[1..n -> ColorChars] : n \in 0..MaxColorLen}

White == <<"#", "F", "F", "F", "F", "F", "F">>
Navy == <<"#", "2", "9", "4", "7", "6", "7">>
ShortWhite == <<"#", "F", "F", "F">>
NotAColor == <<"n", "o", "t", "-", "a", "-", "c", "o", "l", "o", "r">>
SampleColors == {White, Navy, ShortWhite, NotAColor, <<>>}

\* An image column: no path, a path whose file is missing, a path of an image.
ImagePaths == {"unset", "missing", "present"}

\* The appearance columns of a CertificateSettings or CertificateTemplate row.
Style(bg, border, text, logo, signature) ==
    [background_color |-> bg, border_color |-> border, text_color |-> text,
     logo |-> logo, signature |-> signature]
Styles ==
    {Style(bg, bo, tx, lg, sg) : bg \in SampleColors, bo \in SampleColors,
                                 tx \in SampleColors, lg \in ImagePaths,
                                 sg \in ImagePaths}
    \cup {Style(x, x, x, "unset", "unset") : x \in ColorStrings}

\* int(x, 16) of one character; -1 when it is no hexadecimal digit.
HexDigits == <<"0", "1", "2", "3", "4", "5", "6", "7", "8", "9",
               "a", "b", "c", "d", "e", "f">>
HexUpper == <<"A", "B", "C", "D", "E", "F">>
DigitValue(ch) ==
    IF \E i \in 1..Len(HexDigits) : HexDigits[i] = ch
    THEN (CHOOSE i \in 1..Len(HexDigits) : HexDigits[i] = ch) - 1
    ELSE IF \E i \in 1..Len(HexUpper) : HexUpper[i] = ch
         THEN (CHOOSE i \in 1..Len(HexUpper) : HexUpper[i] = ch) + 9
         ELSE 0 - 1

\* hex_color.lstrip('#'): every leading '#' goes.
RECURSIVE lstrip(_)
lstrip(str) == IF str # <<>> /\ Head(str) = "#" THEN lstrip(Tail(str)) ELSE str

\* hex_color[i:i+2], i counted from 0; a slice past the end is shorter or empty.
Slice(str, i) ==
    IF i >= Len(str) THEN <<>>
    ELSE SubSeq(str, i + 1, IF i + 2 <= Len(str) THEN i + 2 ELSE Len(str))

\* int(x, 16) of a slice: ValueError on the empty string and on a character
\* that is no digit; otherwise the number its one or two digits write.
IntRaises(x) == x = <<>> \/ \E k \in 1..Len(x) : DigitValue(x[k]) < 0
Int16(x) == IF Len(x) = 1 THEN DigitValue(x[1])
            ELSE 16 * DigitValue(x[1]) + DigitValue(x[2])

\* The try block of hex_to_rgb runs through: the three slices are numbers.
Parses(hex_color) == \A i \in {0, 2, 4} : ~IntRaises(Slice(lstrip(hex_color), i))

\* A color is the triple of its components, each written as the numerator n of
\* n/255.  colors.black and colors.white:
Black == <<0, 0, 0>>
WhiteColor == <<255, 255, 255>>

\* create_certificate_pdf.hex_to_rgb: the triple, (0, 0, 0) on any exception.
hex_to_rgb(hex_color) ==
    IF Parses(hex_color)
    THEN <<Int16(Slice(lstrip(hex_color), 0)), Int16(Slice(lstrip(hex_color), 2)),
           Int16(Slice(lstrip(hex_color), 4))>>
    ELSE Black

\* try: colors.Color(*hex_to_rgb(x)) except: default.  hex_to_rgb returns a
\* triple for every input and colors.Color takes any triple, so the except
\* clause with its default is not reached.
ColorOf(hex_color, default) == hex_to_rgb(hex_color)

\* if settings.logo_image: ... if os.path.exists(logo_path): drawImage, else a
\* warning.  TRUE when the image is drawn.
DrawsImage(image) == image = "present"

\* The page the full layout of create_certificate_pdf draws.
FullLayout(style) ==
    [kind |-> "full",
     bg_color |-> ColorOf(style.background_color, WhiteColor),
     border_color |-> ColorOf(style.border_color, Black),
     text_color |-> ColorOf(style.text_color, Black),
     logo |-> DrawsImage(style.logo),
     signature |-> DrawsImage(style.signature),
     fields |-> {"title", "name", "text", "course", "date", "url", "identifier"}]

\* The page the except clause draws: title, name, course, identifier.
FallbackLayout ==
    [kind |-> "fallback", fields |-> {"title", "name", "course", "identifier"}]

\* No page.
NoDocument == [kind |-> "none"]

\* What can go wrong outside the style: nothing; a step of the full layout
\* raises (the verification URL cannot be built, a font is missing) while the
\* plain page can be drawn; the file cannot be written (makedirs or save
\* raises), which stops the plain page as well.
Faults == {"none", "layout", "storage"}

\* A faulty variant: no second attempt, a failure of the layout returns False.
RenderPdf_without_fallback(style, fault) ==
    IF fault = "none"
    THEN [raised |-> FALSE, returns |-> TRUE, doc |-> FullLayout(style)]
    ELSE [raised |-> FALSE, returns |-> FALSE, doc |-> NoDocument]

\* create_certificate_pdf: whether it raises, what it returns and the page it
\* saves at output_path.
RenderPdf(style, fault) ==
    IF fault = "none"
    THEN [raised |-> FALSE, returns |-> TRUE, doc |-> FullLayout(style)]
    ELSE IF fault = "layout"
         THEN [raised |-> FALSE, returns |-> TRUE, doc |-> FallbackLayout]
         ELSE [raised |-> FALSE, returns |-> FALSE, doc |-> NoDocument]

\* generate_preview_certificate.hex_to_rgb has no try: a color that is set ('if
\* template.background_color') and does not parse raises ValueError.
PreviewColorRaises(hex_color) == hex_color # <<>> /\ ~Parses(hex_color)
PreviewColor(hex_color, default) ==
    IF hex_color # <<>> THEN hex_to_rgb(hex_color) ELSE default

\* generate_preview_certificate: whether it raises, and the page whose bytes it
\* returns.
PreviewPdf(style) ==
    IF \/ PreviewColorRaises(style.background_color)
       \/ PreviewColorRaises(style.border_color)
       \/ PreviewColorRaises(style.text_color)
    THEN [raised |-> TRUE, doc |-> NoDocument]
    ELSE [raised |-> FALSE,
          doc |-> [kind |-> "full",
                   bg_color |-> PreviewColor(style.background_color, WhiteColor),
                   border_color |-> PreviewColor(style.border_color, Black),
                   text_color |-> PreviewColor(style.text_color, Black),
                   logo |-> DrawsImage(style.logo),
                   signature |-> DrawsImage(style.signature),
                   fields |-> {"title", "name", "text", "course", "date", "url",
                               "identifier"}]]

\* A call of create_certificate_pdf for the certificate of (u, c), the settings
\* row carrying the appearance `style`: the page is saved at the row's path.
render_certificate(p, u, c) ==
    /\ pc[p] = "idle"
    /\ CertificateFor(u, c) # None
    /\ \E style \in Styles, fault \in Faults :
         LET cert == CertificateFor(u, c)
             out == RenderPdf(style, fault)
         IN /\ create_certificate_pdf(cert.file_path, out.returns)
            /\ loc' = [loc EXCEPT ![p] =
                         [op |-> "create_certificate_pdf", caller |-> "none",
                          u |-> u, c |-> c,
                          style |-> style, fault |-> fault,
                          output_path |-> cert.file_path, out |-> out]]
    /\ pc' = [pc EXCEPT ![p] = "done"]
    /\ UNCHANGED <<dbLearning, users, courses, enroll, certs, nextCertId, dbTemplates>>

\* admin.preview_certificate_template: generate_preview_certificate with the
\* appearance `style` of the template row; the bytes go to the response.
preview_certificate_template(p) ==
    /\ pc[p] = "idle"
    /\ templates # {}
    /\ \E style \in Styles :
         loc' = [loc EXCEPT ![p] =
                   [op |-> "generate_preview_certificate", caller |-> "none",
                    style |-> style,
                    out |-> PreviewPdf(style)]]
    /\ pc' = [pc EXCEPT ![p] = "done"]
    /\ UNCHANGED <<dbLearning, dbIssue, dbTemplates>>

\* ------------------------------------------------------- specifications

IssueStep(p) ==
    \/ \E u \in Users, c \in Courses : issue_call(p, u, c)
    \/ issue_course(p)
    \/ issue_existing(p)
    \/ issue_enrollment(p)
    \/ issue_settings(p)
    \/ generate_existing(p)
    \/ generate_load(p)
    \/ generate_insert(p)
    \/ generate_render(p)
    \/ issue_email(p)
    \/ \E u \in Users, c \in Courses : download(p, u, c)
    \/ finish(p)

CompletionStep(p) ==
    \/ \E u \in Users, c \in Courses, v \in Videos : mark_video_completed(p, u, c, v)
    \/ \E u \in Users, c \in Courses, passed \in BOOLEAN : submit_quiz(p, u, c, passed)
    \/ issue_course(p)
    \/ issue_existing(p)
    \/ issue_enrollment(p)
    \/ issue_settings(p)
    \/ generate_existing(p)
    \/ generate_load(p)
    \/ generate_insert(p)
    \/ generate_render(p)
    \/ issue_email(p)
    \/ mark_video_completed_return(p)
    \/ submit_quiz_return(p)
    \/ respond(p)

TemplateStep(p) ==
    \/ certificate_templates(p)
    \/ get_default_template_insert(p)
    \/ finish(p)

RenderStep(p) ==
    \/ \E u \in Users, c \in Courses : render_certificate(p, u, c)
    \/ preview_certificate_template(p)
    \/ finish(p)

IssueAdmin ==
    \/ \E auto \in BOOLEAN, send \in BOOLEAN : certificate_settings_v2(auto, send)
    \/ \E c \in Courses, h \in BOOLEAN, tid \in 0..MaxTemplates : edit_course(c, h, tid)
    \/ \E c \in Courses : delete_course(c)
    \/ \E u \in Users : delete_user(u)

TemplateAdmin ==
    \/ \E d \in BOOLEAN : new_certificate_template(d)
    \/ \E tid \in 1..MaxTemplates, d \in BOOLEAN : edit_certificate_template(tid, d)
    \/ \E tid \in 1..MaxTemplates : delete_certificate_template(tid)
    \/ \E c \in Courses, h \in BOOLEAN, tid \in 0..MaxTemplates : edit_course(c, h, tid)

Next ==
    \/ \E p \in Procs : IssueStep(p) \/ TemplateStep(p) \/ RenderStep(p)
    \/ \E p \in Procs : CompletionStep(p)
    \/ IssueAdmin
    \/ TemplateAdmin

Spec == Init /\ [][Next]_vars

\* The issuance requests with the back-office requests that touch what they read.
IssueNext == (\E p \in Procs : IssueStep(p)) \/ IssueAdmin
IssueSpec == IssueInit /\ [][IssueNext]_vars

\* The same requests served one at a time: a request starts when no other runs.
OthersIdle(p) == \A q \in Procs \ {p} : pc[q] = "idle"
SeqIssueNext ==
    \/ \E p \in Procs : OthersIdle(p) /\ IssueStep(p)
    \/ (\A q \in Procs : pc[q] = "idle") /\ IssueAdmin
SeqIssueSpec == IssueInit /\ [][SeqIssueNext]_vars

\* The renderers, called by one request at a time for a certificate whose file is missing
\* (its first render failed) and for the default template.
RenderInit ==
    /\ users = [u \in Users |-> TRUE]
    /\ courses = [c \in Courses |->
                    [exists |-> TRUE, has_certificate |-> TRUE,
                     certificate_template_id |-> 1]]
    /\ enroll = [pr \in Pairs |-> IF pr = <<1, 1>> THEN "completed" ELSE "none"]
    /\ settings = <<DefaultSettings>>
    /\ certs = {[id |-> 1, user_id |-> 1, course_id |-> 1,
                 certificate_id |-> Uuid(1), file_path |-> FilePath(Uuid(1)),
                 issue_date |-> Date(1)]}
    /\ nextCertId = 2
    /\ files = {}
    /\ templates = {[id |-> 1, is_default |-> TRUE]}
    /\ nextTemplateId = 2
    /\ quiz = [c \in Courses |-> FALSE]
    /\ progress = [pr \in Pairs |-> {}]
    /\ attempts = {}
    /\ pc = [p \in Procs |-> "idle"]
    /\ loc = [p \in Procs |-> NoLoc]

RenderNext == \E p \in Procs : p = 1 /\ RenderStep(p)
RenderSpec == RenderInit /\ [][RenderNext]_vars

\* The learners' requests, served one at a time, on courses with and without a
\* quiz, with the back-office requests that switch certificates on and off.
CompletionInit ==
    /\ users = [u \in Users |-> TRUE]
    /\ courses = [c \in Courses |->
                    [exists |-> TRUE, has_certificate |-> FALSE,
                     certificate_template_id |-> 0]]
    /\ enroll \in [Pairs -> {"none", "enrolled"}]
    /\ settings = <<>>
    /\ certs = {}
    /\ nextCertId = 1
    /\ files = {}
    /\ templates = {[id |-> 1, is_default |-> TRUE]}
    /\ nextTemplateId = 2
    /\ quiz \in [Courses -> BOOLEAN]
    /\ progress = [pr \in Pairs |-> {}]
    /\ attempts = {}
    /\ pc = [p \in Procs |-> "idle"]
    /\ loc = [p \in Procs |-> NoLoc]
CompletionNext ==
    \/ \E p \in Procs : p = 1 /\ CompletionStep(p)
    \/ /\ \A q \in Procs : pc[q] = "idle"
       /\ \/ \E auto \in BOOLEAN, send \in BOOLEAN : certificate_settings_v2(auto, send)
          \/ \E c \in Courses, h \in BOOLEAN : edit_course(c, h, 0)
CompletionSpec == CompletionInit /\ [][CompletionNext]_vars

\* The requests on the certificate settings, the first reads included.
SettingsInit == InitWith([pr \in Pairs |-> "none"], {[id |-> 1, is_default |-> TRUE]}, 2)
SettingsStep(p) ==
    \/ settings_page(p)
    \/ get_settings_insert(p)
    \/ finish(p)
SettingsNext ==
    \/ \E p \in Procs : SettingsStep(p)
    \/ \E auto \in BOOLEAN, send \in BOOLEAN : certificate_settings_v2(auto, send)
    \/ \E c \in Courses, h \in BOOLEAN, tid \in 0..MaxTemplates : edit_course(c, h, tid)
SettingsSpec == SettingsInit /\ [][SettingsNext]_vars

\* The requests on the certificate templates.
TemplateNext == (\E p \in Procs : TemplateStep(p)) \/ TemplateAdmin
TemplateSpec == TemplateInit /\ [][TemplateNext]_vars

\* ------------------------------------------------------------------ claims

\* The eligibility of a pair as the database has it.
Eligible(u, c) ==
    /\ courses[c].exists /\ courses[c].has_certificate
    /\ enroll[<<u, c>>] = "completed"
    /\ GetSettingsRow.auto_issue

\* Request p has returned from issue_certificate_on_course_completion.
Issued(p) == pc[p] = "done" /\ loc[p].op = "issue"

\* C1. Idempotence: a call of issue_certificate_on_course_completion for an
\* eligible pair, served with no other request in between, leaves exactly one
\* Certificate row for the pair and returns that row's certificate_id (so every
\* call of a sequence returns the same identifier).
C1_Idempotence ==
    \A p \in Procs :
        Issued(p) /\ Eligible(loc[p].u, loc[p].c)
        => /\ Cardinality(CertsOf(loc[p].u, loc[p].c)) = 1
           /\ loc[p].ret = CertificateFor(loc[p].u, loc[p].c).certificate_id

\* C2. Uniqueness: no two Certificate rows share a (user_id, course_id) pair and
\* no two share a certificate_id, in every state, however the requests interleave.
C2_Uniqueness ==
    \A x \in certs, y \in certs :
        (x.user_id = y.user_id /\ x.course_id = y.course_id)
            \/ x.certificate_id = y.certificate_id
            \/ x.id = y.id
        => x = y

\* C2's case: two issuance attempts for one pair raced, the second INSERT was
\* rejected, and the other pair holds a certificate too.
C2_Witness ==
    /\ Cardinality(certs) = 2
    /\ \E p \in Procs :
         /\ Issued(p) /\ loc[p].cid # None /\ ~loc[p].inserted
         /\ CertsOf(loc[p].u, loc[p].c) # {}

\* C3. The loser of a race for one pair (it saw no certificate, its INSERT was
\* rejected because the winner's row is there) returns the winner's row.
C3_LoserReturnsWinner ==
    \A p \in Procs :
        /\ Issued(p) /\ loc[p].existing = "absent"
        /\ loc[p].cid # None /\ ~loc[p].inserted
        /\ CertsOf(loc[p].u, loc[p].c) # {}
        => loc[p].ret = CertificateFor(loc[p].u, loc[p].c).certificate_id

\* C4. Eligibility gating: a call that found the course missing or without
\* certificates, or found no certificate and then the enrolment absent or not
\* completed, or auto_issue off, returns None and has inserted no row.
C4_Gating ==
    \A p \in Procs :
        Issued(p)
        /\ \/ loc[p].course \in {"missing", "disabled"}
           \/ loc[p].existing = "absent" /\ loc[p].enrollment \in {"none", "enrolled"}
           \/ loc[p].existing = "absent" /\ loc[p].auto_issue = "no"
        => loc[p].ret = None /\ ~loc[p].inserted /\ loc[p].cid = None

\* C4's case: one call stopped at auto_issue while another stopped at the
\* enrolment or at the course.
C4_Witness ==
    \E p \in Procs, q \in Procs :
        /\ Issued(p) /\ loc[p].auto_issue = "no" /\ loc[p].ret = None
        /\ Issued(q) /\ loc[q].ret = None
        /\ \/ loc[q].enrollment \in {"none", "enrolled"}
           \/ loc[q].course \in {"missing", "disabled"}

\* C5. Verification round-trip: for every Certificate row, both verification
\* handlers answer valid for its certificate_id, with the name of its user and
\* the title of its course.
C5_RoundTrip ==
    \A r \in certs :
        /\ api_verify(r.certificate_id) =
              [status |-> 200, valid |-> TRUE, certificate_id |-> r.certificate_id,
               course_title |-> CourseTitle(r.course_id),
               user_name |-> UserName(r.user_id),
               issue_date |-> Strftime(r.issue_date)]
        /\ verify(r.certificate_id) =
              [status |-> 200, is_valid |-> TRUE, certificate_id |-> r.certificate_id,
               course_title |-> CourseTitle(r.course_id),
               user_name |-> UserName(r.user_id)]

\* C5's case: certificates of two users exist, and the back-office has tried
\* to delete nothing successfully that they refer to.
C5_Witness ==
    \E x \in certs, y \in certs : x.user_id # y.user_id

\* C6. An identifier that is the certificate_id of no row is answered with
\* valid = false (404 by the API, the page with is_valid = False), never with
\* a server error, also when it is the text of a row's primary key.
C6_UnknownIdentifier ==
    \A x \in Identifiers :
        (\A r \in certs : r.certificate_id # x)
        => /\ verify_certificate(x) = None
           /\ api_verify(x) = [status |-> 404, valid |-> FALSE,
                               message |-> "Certificate not found or invalid"]
           /\ verify(x) = [status |-> 200, is_valid |-> FALSE, certificate_id |-> x]

\* C6's case: a row exists whose primary key, as text, is a possible request.
C6_Witness ==
    \E r \in certs : IntStr(r.id) \in Identifiers /\ verify_certificate(IntStr(r.id)) = None

\* A step that turns is_default on: a row that is the default after the step
\* and was not before (or did not exist).
SetsDefault ==
    \E t \in templates' :
        t.is_default /\ \A o \in templates : o.id = t.id => ~o.is_default

\* The INSERT of a get_default_template whose SELECT another request has
\* overtaken: a default row exists by now.
OvertakenInsert ==
    DefaultTemplates # {} /\ \E p \in Procs : get_default_template_insert(p)

\* C7. After a single back-office operation that sets is_default on a template
\* (a new template, an edit, a synthesised default), exactly one template is
\* the default.
C7_OneDefaultAfterSet ==
    [][SetsDefault /\ ~OvertakenInsert
          => Cardinality({t \in templates' : t.is_default}) = 1]_vars

\* C7's case: the default has moved from the first template to a later one.
C7_Witness ==
    /\ \E t \in templates : t.id = 1 /\ ~t.is_default
    /\ \E t \in templates : t.id > 1 /\ t.is_default

\* C8. At most one template is the default in every state, also when
\* get_default_template calls and create/edit requests interleave.
C8_AtMostOneDefault == Cardinality(DefaultTemplates) <= 1

\* C9. Self-healing: after an access to an existing certificate (a download, or
\* issue_certificate_on_course_completion finding the row) the row's file is in
\* storage at the recorded path, and the pair still has one row.
C9_SelfHealing ==
    \A p \in Procs :
        /\ pc[p] = "done"
        /\ \/ loc[p].op = "download" /\ loc[p].ret # <<"404">>
           \/ loc[p].op = "issue" /\ loc[p].existing = "found"
        => /\ Cardinality(CertsOf(loc[p].u, loc[p].c)) = 1
           /\ CertificateFor(loc[p].u, loc[p].c).file_path \in files

\* C10. When the render of a new issuance fails, the row inserted before it is
\* still in the table after the call.
C10_RowSurvivesRenderFailure ==
    \A p \in Procs :
        Issued(p) /\ loc[p].inserted /\ loc[p].render = "failed"
        => \E x \in certs :
              /\ x.user_id = loc[p].u /\ x.course_id = loc[p].c
              /\ x.certificate_id = loc[p].cid
              /\ x.file_path = FilePath(loc[p].cid)

\* C10's case: a call inserted its row, the render failed, the call returned None.
C10_Witness ==
    \E p \in Procs :
        Issued(p) /\ loc[p].inserted /\ loc[p].render = "failed" /\ loc[p].ret = None

\* C11. Identifier collision: a call whose fresh certificate_id is already the
\* certificate_id of another pair's row (the INSERT was rejected by the unique
\* constraint) still ends with a Certificate for its pair and returns it, and
\* the row that held the identifier is still that pair's.
C11_CollisionRetried ==
    \A p \in Procs :
        /\ Issued(p) /\ loc[p].cid # None /\ ~loc[p].inserted
        /\ \E x \in certs : /\ x.certificate_id = loc[p].cid
                            /\ <<x.user_id, x.course_id>> # <<loc[p].u, loc[p].c>>
        => /\ CertsOf(loc[p].u, loc[p].c) # {}
           /\ loc[p].ret = CertificateFor(loc[p].u, loc[p].c).certificate_id

\* C12. Email hand-off: a call that issued a new certificate (served with no
\* other request in between) has invoked send_certificate_email exactly when
\* send_email is on in the settings; whether or not the email went out, the
\* call returns the new certificate and its row is in the table.
C12_EmailHandOff ==
    \A p \in Procs :
        Issued(p) /\ loc[p].inserted /\ loc[p].render = "written"
        => /\ (loc[p].email \in {"sent", "failed"})
                 <=> (settings # <<>> /\ settings[1].send_email)
           /\ loc[p].ret = loc[p].cid
           /\ \E x \in certs : /\ x.certificate_id = loc[p].cid
                               /\ x.user_id = loc[p].u /\ x.course_id = loc[p].c

\* C12's case: a new certificate was issued and its email failed.
C12_Witness ==
    \E p \in Procs :
        /\ Issued(p) /\ loc[p].inserted /\ loc[p].email = "failed"
        /\ loc[p].ret = loc[p].cid /\ CertsOf(loc[p].u, loc[p].c) # {}

\* Request p has returned from a renderer.
Rendered(p, op) == pc[p] = "done" /\ loc[p].op = op

WellFormed(str) ==
    /\ Len(str) = 7 /\ str[1] = "#"
    /\ \A k \in 2..7 : DigitValue(str[k]) >= 0

\* (RR/255, GG/255, BB/255) of a well-formed color, as numerators.
Triple(str) ==
    <<16 * DigitValue(str[2]) + DigitValue(str[3]),
      16 * DigitValue(str[4]) + DigitValue(str[5]),
      16 * DigitValue(str[6]) + DigitValue(str[7])>>

\* C14. Color resolution in create_certificate_pdf: a well-formed '#RRGGBB'
\* resolves to (RR/255, GG/255, BB/255); a value that fails to parse resolves
\* to black as text or border color and to white as background color.
C14_ColorResolution ==
    \A p \in Procs :
        Rendered(p, "create_certificate_pdf") /\ loc[p].out.doc.kind = "full"
        => LET st == loc[p].style
               doc == loc[p].out.doc
           IN /\ WellFormed(st.background_color)
                   => doc.bg_color = Triple(st.background_color)
              /\ WellFormed(st.border_color)
                   => doc.border_color = Triple(st.border_color)
              /\ WellFormed(st.text_color)
                   => doc.text_color = Triple(st.text_color)
              /\ ~Parses(st.text_color) => doc.text_color = Black
              /\ ~Parses(st.border_color) => doc.border_color = Black
              /\ ~Parses(st.background_color) => doc.bg_color = WhiteColor

\* C15. Rendering resilience: when nothing outside the style goes wrong, both
\* renderers return a document without raising, whatever the color strings
\* are, and the document carries no logo (signature) when the logo (signature)
\* path names a missing file.
C15_RenderingResilience ==
    \A p \in Procs :
        \/ Rendered(p, "create_certificate_pdf") /\ loc[p].fault = "none"
        \/ Rendered(p, "generate_preview_certificate")
        => /\ ~loc[p].out.raised
           /\ loc[p].out.doc.kind = "full"
           /\ loc[p].style.logo = "missing" => ~loc[p].out.doc.logo
           /\ loc[p].style.signature = "missing" => ~loc[p].out.doc.signature

\* The template a course's certificates are to be drawn with: the one the
\* course refers to when that row exists, the default one otherwise.
ResolvedTemplate(c) ==
    IF \E t \in templates : t.id = courses[c].certificate_template_id
    THEN courses[c].certificate_template_id
    ELSE GetDefaultId

\* C16. Template resolution at render time: the page of an issued certificate
\* is drawn with the appearance of the CertificateTemplate the course refers
\* to, or of the default template when the reference is null or dangling.
C16_TemplateResolution ==
    \A p \in Procs :
        Issued(p) /\ loc[p].render \in {"written", "regenerated"}
        => loc[p].style_from = <<"certificate_templates", ResolvedTemplate(loc[p].c)>>

\* C17. Storage path: every Certificate row's file_path is
\* 'uploads/certificates/certificate_<certificate_id>.pdf' of its own
\* identifier, no two rows share a path, every file in storage lies at the
\* recorded path of a row, and when generate_certificate has returned a newly
\* created certificate a file is at its recorded path.
C17_StoragePath ==
    /\ \A r \in certs : r.file_path = FilePath(r.certificate_id)
    /\ \A r1 \in certs, r2 \in certs : r1.file_path = r2.file_path => r1 = r2
    /\ \A f \in files : \E r \in certs : r.file_path = f
    /\ \A p \in Procs :
          loc[p].op = "issue" /\ loc[p].inserted /\ loc[p].render = "written"
          => \E r \in certs : /\ r.certificate_id = loc[p].cid
                              /\ r.user_id = loc[p].u /\ r.course_id = loc[p].c
                              /\ r.file_path \in files

\* C17's case: two certificates, one file written by a new issuance and the
\* other by a regeneration.
C17_Witness ==
    /\ Cardinality(certs) = 2 /\ Cardinality(files) = 2
    /\ \E p \in Procs, q \in Procs :
          /\ loc[p].op = "issue" /\ loc[p].render = "written"
          /\ loc[q].op = "issue" /\ loc[q].render = "regenerated"

\* C18. Permanence: a Certificate row of a state is a row of the next state,
\* with the same user_id, course_id, certificate_id, file_path and issue_date,
\* whatever step is taken (issuance, regeneration, a render failure with its
\* rollback, the back-office deleting the course or the user).
C18_Permanence == [][\A r \in certs : r \in certs']_vars

\* C18's case: a certificate exists, a repeated call for its pair has found it,
\* and the file of a certificate has been regenerated.
C18_Witness ==
    /\ certs # {}
    /\ \E p \in Procs, q \in Procs :
          /\ Issued(p) /\ loc[p].existing = "found" /\ loc[p].render = "none"
          /\ Issued(q) /\ loc[q].render = "regenerated"

C20_NoUserLeak ==
    \A x \in Identifiers :
        LET rows == {r \in certs : r.certificate_id = x}
        IN /\ DOMAIN api_verify(x) \cap {"id", "user_id", "course_id"} = {}
           /\ rows = {}
                => /\ api_verify(x).status = 404 /\ ~api_verify(x).valid
                   /\ api_verify(x).message = "Certificate not found or invalid"
                   /\ ~verify(x).is_valid
           /\ \A r \in rows :
                /\ api_verify(x) =
                     [status |-> 200, valid |-> TRUE, certificate_id |-> x,
                      course_title |-> CourseTitle(r.course_id),
                      user_name |-> UserName(r.user_id),
                      issue_date |-> Strftime(r.issue_date)]
                /\ verify(x).is_valid
                /\ verify(x).user_name = UserName(r.user_id)
                /\ verify(x).course_title = CourseTitle(r.course_id)

\* C20's case: a certificate exists, a user who holds none has been deleted,
\* and the text of the deleted user's key is a possible request.
C20_Witness ==
    /\ certs # {}
    /\ \E u \in Users : ~users[u] /\ IntStr(u) \in Identifiers

\* C21. CertificateSettings is a singleton: the table never holds more than
\* one row, also when two first reads of get_settings interleave.
C21_Singleton == Len(settings) <= 1

\* C22. Existing-certificate short-circuit: a call for a course with
\* certificates enabled that finds a Certificate of its pair returns that row
\* without reading the enrollment or the settings, and changes nothing: no row
\* added or modified, no file written, no email handed over.
C22_ShortCircuit ==
    [][\A p \in Procs :
         /\ pc[p] = "issue_existing" /\ pc'[p] # "issue_existing"
         /\ CertificateFor(loc[p].u, loc[p].c) # None
         => /\ pc'[p] = "done"
            /\ loc'[p].ret = CertificateFor(loc[p].u, loc[p].c).certificate_id
            /\ loc'[p].enrollment = "unread" /\ loc'[p].auto_issue = "unread"
            /\ loc'[p].email = "none" /\ loc'[p].render = "none"
            /\ ~loc'[p].inserted
            /\ UNCHANGED <<dbIssue, dbTemplates, dbLearning>>]_vars

\* C22's case: a call returned the existing row while auto_issue is off.
C22_Witness ==
    \E p \in Procs :
        /\ Issued(p) /\ loc[p].existing = "found" /\ loc[p].auto_issue = "unread"
        /\ loc[p].ret = CertificateFor(loc[p].u, loc[p].c).certificate_id
        /\ settings # <<>> /\ ~settings[1].auto_issue

\* Request p went through the existing-certificate branch of generate_certificate.
InExistingBranch(p) ==
    /\ loc[p].op = "issue" /\ loc[p].existing = "found"
    /\ loc[p].auto_issue # "unread" /\ pc[p] \in {"issue_email", "done"}

\* C23. generate_certificate called for a pair that already has a Certificate
\* returns that row and inserts nothing; a missing file is re-rendered at the
\* row's recorded file_path, and when that re-render fails the existing row is
\* returned all the same.
C23_ExistingBranch ==
    \A p \in Procs :
        InExistingBranch(p)
        => /\ ~loc[p].inserted /\ loc[p].cid = None
           /\ \E x \in CertsOf(loc[p].u, loc[p].c) :
                 /\ loc[p].ret = x.certificate_id
                 /\ loc[p].render = "regenerated" => x.file_path \in files
                 /\ x.file_path = FilePath(x.certificate_id)

\* C23's case: the row was found, its file was missing and the re-render failed.
C23_Witness ==
    \E p \in Procs :
        /\ InExistingBranch(p) /\ loc[p].render = "failed"
        /\ loc[p].ret = CertificateFor(loc[p].u, loc[p].c).certificate_id

\* C25. A call that returns None has created no Certificate row for its pair.
C25_NoneMeansNothingIssued ==
    \A p \in Procs :
        Issued(p) /\ loc[p].ret = None
        => /\ ~loc[p].inserted
           /\ loc[p].existing # "found" => CertsOf(loc[p].u, loc[p].c) = {}

\* C27. The certificate-issued email is handed over at most once per
\* Certificate row, however the calls for one pair interleave.
C27_EmailAtMostOnce ==
    \A p \in Procs, q \in Procs :
        /\ p # q /\ Issued(p) /\ Issued(q)
        /\ loc[p].email \in {"sent", "failed"} /\ loc[q].email \in {"sent", "failed"}
        => loc[p].ret # loc[q].ret

\* The templates a step deleted.
DeletedTemplates == {t \in templates : \A x \in templates' : x.id # t.id}

\* C29. Template deletion guards: no step deletes a template whose is_default
\* is true or the only template; after a deletion every course that referenced
\* the deleted template references a default template; and each course's
\* certificate_template_id is null (0) or the id of an existing template.
C29_DeletionGuards ==
    [][/\ \A t \in DeletedTemplates :
            /\ ~t.is_default
            /\ Cardinality(templates) > 1
            /\ \A c \in Courses :
                  courses[c].certificate_template_id = t.id
                  => \E d \in templates' :
                        d.is_default /\ courses'[c].certificate_template_id = d.id
       /\ \A c \in Courses :
             \/ courses'[c].certificate_template_id = 0
             \/ \E x \in templates' : x.id = courses'[c].certificate_template_id]_vars

\* C30. Default is never lost: a create, edit or delete of a template in a
\* state with exactly one default template leaves exactly one default template.
C30_DefaultNeverLost ==
    [][Cardinality(DefaultTemplates) = 1 /\ pc' = pc /\ templates' # templates
       => Cardinality({t \in templates' : t.is_default}) = 1]_vars

\* Request p has answered as handler h.
Responded(p, h) == pc[p] = "responded" /\ loc[p].caller = h

\* C24. Quiz prerequisite: for a course that has a quiz, a step of a
\* mark_video_completed or submit_quiz request creates a Certificate only for a
\* user who has a passing QuizAttempt for the course's quiz and a completed
\* enrollment when the row is written.
C24_QuizPrerequisite ==
    [][\A r \in certs' \ certs :
          quiz[r.course_id]
          => /\ \E a \in attempts' :
                   a.user_id = r.user_id /\ a.quiz_id = r.course_id /\ a.passed
             /\ enroll'[<<r.user_id, r.course_id>>] = "completed"]_vars

\* C24's case: on a course with a quiz, a submit_quiz request whose attempt
\* passed after the videos were finished has issued the certificate.
C24_Witness ==
    \E p \in Procs :
        /\ Responded(p, "submit_quiz") /\ loc[p].inserted /\ quiz[loc[p].c]
        /\ CertsOf(loc[p].u, loc[p].c) # {} /\ QuizPassed(loc[p].u, loc[p].c)

\* C26. Completion trigger is retried: after a mark_video_completed request of
\* an enrolled user, made with every video of the course completed,
\* certificates enabled, auto_issue on and the quiz (if any) passed, the pair
\* has a Certificate.
C26_TriggerRetried ==
    \A p \in Procs :
        /\ Responded(p, "mark_video_completed")
        /\ enroll[<<loc[p].u, loc[p].c>>] # "none"
        /\ progress[<<loc[p].u, loc[p].c>>] = Videos
        /\ courses[loc[p].c].has_certificate
        /\ settings # <<>> /\ settings[1].auto_issue
        /\ quiz[loc[p].c] => QuizPassed(loc[p].u, loc[p].c)
        => CertsOf(loc[p].u, loc[p].c) # {}

\* C28. Every submit_quiz request persists its QuizAttempt row: when the
\* request has answered, the attempt has a primary key and its row, with the
\* user, the quiz and the outcome of the request, is in the table.
C28_AttemptPersisted ==
    \A p \in Procs :
        Responded(p, "submit_quiz")
        => \E a \in attempts :
              /\ a.id = loc[p].attempt_id
              /\ a.user_id = loc[p].u /\ a.quiz_id = loc[p].c
====
